---- MODULE Spec2Model ----
(***************************************************************************)
(* Wallet consistency and payment reconciliation of airtime_backend.      *)
(*                                                                         *)
(* The store (MongoDB collections "wallets" and "transactions") is shared  *)
(* by concurrently running request handlers and webhook reconcilers.  Each *)
(* handler is a process slot whose program counter advances at the awaits  *)
(* of its code; operations issued with a session run on the snapshot of a  *)
(* multi-document transaction and are committed or rolled back as a unit,  *)
(* operations issued without one are committed at once.  The step that     *)
(* ends a request leaves its outcome in "last" until Respond hands it to   *)
(* the caller.                                                             *)
(***************************************************************************)
EXTENDS Integers, Sequences, FiniteSets, TLC

\* ------------------------------------------------------------------ bounds
NumUsers == 1
MaxAmount == 2
OpeningBalance == 1
MaxClock == 1
MaxTxns == 2
LedgerMaxBalance == 3
NumProcs == 2
NumConns == 2
NumPairUsers == 2
MaxMessages == 2
MaxRetries == 4

Users == 1..NumUsers
NoUser == 0
EventUsers == Users \cup {NoUser}
Amounts == 1..MaxAmount
Procs == 1..NumProcs
Clock == 0..MaxClock
Currencies == {"NGN", "USD"}
RequestCurrency == "NGN"

VARIABLES wallets, txns, published, proc, last, now, statusChanges, balanceMutations

\* The websocket side: the room registry of the ConnectionManager, the sockets
\* and what each has been sent, and the position of the channel listener.
VARIABLES connections, socket, received, since, lis

fanout == <<connections, socket, received, since, lis>>

\* The wallets collection as the documents inserted into it, and the wallet
\* creations that are running.
VARIABLES walletDocs, creating

creation == <<walletDocs, creating>>

\* A call of the HTTP client: its arguments, the attempt it is at and the
\* outcomes of the attempts made.
VARIABLES request

retry == <<request>>

\* The messages of the queue wallet.events: where each is, what its body is,
\* how handle_message left its block, and how often it has been acknowledged,
\* rejected and handed to the reconciler.
VARIABLES inbox

worker == <<inbox>>

\* what the requests on wallets and transactions leave alone
aside == <<fanout, creation, retry, worker>>

vars == <<wallets, txns, published, proc, last, now, statusChanges, balanceMutations,
          connections, socket, received, since, lis, walletDocs, creating, request,
          inbox>>

\* --------------------------------------------------------------- references
NoRef == <<NoUser, 0>>

\* tx_ref-{user_id}-{timestamp to the second}
GenerateTxRef(user, clock) == <<user, clock>>

AllRefs == {GenerateTxRef(u, c) : u \in Users, c \in Clock}

\* ------------------------------------------------------------------- store
TransactionStatus == {"pending", "success", "failed"}
Terminal == {"success", "failed"}

\* find_one({"reference": reference}): the first document in natural order, 0 for None
GetByReference(ts, reference) ==
  LET S == {i \in 1..Len(ts) : ts[i].reference = reference}
  IN IF S = {} THEN 0 ELSE CHOOSE i \in S : \A j \in S : i <= j

\* find_one({"user_id": user_id}): the wallet's key, NoUser for None
GetByUserId(ws, user_id) == IF user_id \in DOMAIN ws THEN user_id ELSE NoUser

\* A ledger that stores 0 where the new balance would be negative, for comparison.
UpdateBalanceClamping(ws, user_id, amount, mode) ==
  IF GetByUserId(ws, user_id) = NoUser
  THEN [raised |-> "WalletError", wallets |-> ws]
  ELSE LET new_balance == IF mode = "add" THEN ws[user_id].balance + amount
                                          ELSE ws[user_id].balance - amount
       IN IF new_balance < 0
          THEN [raised |-> "none", wallets |-> [ws EXCEPT ![user_id].balance = 0]]
          ELSE [raised |-> "none", wallets |-> [ws EXCEPT ![user_id].balance = new_balance]]

\* WalletDB.update_balance: read, compute, reject a negative result, write
UpdateBalance(ws, user_id, amount, mode) ==
  IF GetByUserId(ws, user_id) = NoUser
  THEN [raised |-> "WalletError", wallets |-> ws]
  ELSE LET new_balance == IF mode = "add" THEN ws[user_id].balance + amount
                                          ELSE ws[user_id].balance - amount
       IN IF new_balance < 0
          THEN [raised |-> "WalletError", wallets |-> ws]
          ELSE [raised |-> "none", wallets |-> [ws EXCEPT ![user_id].balance = new_balance]]

\* WalletDB.toggle_wallet_lock(user_id, session): is_locked := not is_locked
ToggleWalletLock(ws, user_id) ==
  IF GetByUserId(ws, user_id) = NoUser
  THEN [raised |-> "WalletError", wallets |-> ws]
  ELSE [raised |-> "none",
        wallets |-> [ws EXCEPT ![user_id].is_locked = ~ws[user_id].is_locked]]

\* A toggle_wallet_lock that took the keyword "lock" and toggled, for comparison.
ToggleWalletLockKwAccepted(ws, user_id) == ToggleWalletLock(ws, user_id)

\* A call toggle_wallet_lock(user_id, lock=...): the method has no parameter
\* "lock", so binding the arguments raises TypeError before the body runs.
ToggleWalletLockKw(ws, user_id) == [raised |-> "TypeError", wallets |-> ws]

\* ---------------------------------------------------------------- processes
NoVerify == [status |-> "none", amount |-> 0, currency |-> "none"]
NoWallet == [balance |-> 0, is_locked |-> FALSE]
NoTransaction ==
  [user |-> NoUser, amount |-> 0, currency |-> "none", type |-> "none",
   status |-> "none", reference |-> NoRef]

\* A process slot: the position of a running handler and the locals it keeps
\* across its awaits (snapT and snapW are the documents of its snapshot).
Idle ==
  [pc |-> "idle", user |-> NoUser, amount |-> 0, mode |-> "none", tid |-> 0,
   seen |-> FALSE, prev |-> "none", new_balance |-> 0, snapT |-> NoTransaction,
   snapW |-> NoWallet]

\* What a request that has just ended gave its caller.  Set by the step that
\* ends the request, cleared by every other step.
NoLast ==
  [kind |-> "none", result |-> "none", user |-> NoUser, tid |-> 0, prev |-> "none",
   held |-> FALSE, etype |-> "none", evstatus |-> "none", verify |-> NoVerify,
   mode |-> "none", amount |-> 0, before |-> 0, check |-> "none", target |-> NoUser]

Outcome(kind) == [NoLast EXCEPT !.kind = kind]

\* No outcome is waiting to be handed to its caller.
Ready == last = NoLast

\* The outcome of the request that has just ended reaches its caller: the HTTP
\* response is sent, or the queue message is acknowledged.
Respond ==
  /\ last # NoLast
  /\ last' = NoLast
  /\ UNCHANGED <<wallets, txns, published, proc, now, statusChanges, balanceMutations>>

\* The request of process p ends: its outcome is what the caller is given.
Finish(p, rec) ==
  /\ proc' = [proc EXCEPT ![p] = Idle]
  /\ last' = rec

\* The store when the service starts handling requests: one unlocked wallet per
\* user (WalletDB.defaults), holding the balance the durable store kept for it,
\* and no transaction.
\* ------------------------------------------------------- websocket connections
Conns == 1..NumConns
Rooms == AllRefs

\* ConnectionManager.__init__: no room
NoConnections == [r \in {} |-> {}]

\* A socket no handler is serving.
Closed == [state |-> "closed", room |-> NoRef]

\* The listener between two messages of the channel; idx counts the messages
\* it has taken and msg is the place on the channel of the last one.
Waiting == [pc |-> "wait", idx |-> 0, msg |-> 0, room |-> NoRef, visited |-> {}, used |-> 0,
            detached |-> FALSE, raised |-> "none"]

\* A creation that has not begun.
NotCreating == [pc |-> "idle", user_id |-> NoUser, result |-> "none"]

\* No call of the HTTP client.
NoRequest == [pc |-> "idle", method |-> "none", max_retries |-> 0, attempt |-> 0,
              log |-> << >>, result |-> "none"]

\* A message that has not been published.
NoMessage == [state |-> "none", body |-> "none", outcome |-> "none",
              acks |-> 0, rejects |-> 0, requeues |-> 0, runs |-> 0]

InitFanout ==
  /\ request = NoRequest
  /\ inbox = [m \in 1..MaxMessages |-> NoMessage]
  /\ walletDocs = << >>
  /\ creating = [p \in Procs |-> NotCreating]
  /\ connections = NoConnections
  /\ socket = [c \in Conns |-> Closed]
  /\ received = [c \in Conns |-> << >>]
  /\ since = [c \in Conns |-> 0]
  /\ lis = Waiting

Init ==
  /\ wallets = [u \in Users |-> [balance |-> OpeningBalance, is_locked |-> FALSE]]
  /\ txns = << >>
  /\ published = << >>
  /\ proc = [p \in Procs |-> Idle]
  /\ last = NoLast
  /\ now = 0
  /\ statusChanges = << >>
  /\ balanceMutations = << >>
  /\ InitFanout

\* datetime.now advances between requests
Tick ==
  /\ Ready
  /\ now < MaxClock
  /\ now' = now + 1
  /\ last' = NoLast
  /\ UNCHANGED <<wallets, txns, published, proc, statusChanges, balanceMutations>>

\* A record that is created already resolved, for comparison.
NewTransactionResolved(user, amount, type, reference) ==
  [user |-> user, amount |-> amount, currency |-> RequestCurrency, type |-> type,
   status |-> "success", reference |-> reference]

NewTransaction(user, amount, type, reference) ==
  [user |-> user, amount |-> amount, currency |-> RequestCurrency, type |-> type,
   status |-> "pending", reference |-> reference]

\* ------------------------------------------------------------ withdraw_from_wallet
\* except BankVerificationError or PaymentFailedError: the expression
\* (A or B) is A, so the clause names BankVerificationError alone.
WithdrawCaught(exc) == exc = "BankVerificationError"

\* A balance check that lets every amount pass, for comparison.
InsufficientBalanceNever(balance, amount) == FALSE

\* line 385: wallet.balance < data.amount
InsufficientBalance(balance, amount) == balance < amount

\* lines 380-386: read the wallet, reject if locked or short of funds
WithdrawStart(p, user, amount) ==
  /\ Ready
  /\ proc[p].pc = "idle"
  /\ LET base == [Outcome("withdraw") EXCEPT !.user = user]
     IN IF wallets[user].is_locked
        THEN Finish(p, [base EXCEPT !.result = "WalletError_locked"])
        ELSE IF InsufficientBalance(wallets[user].balance, amount)
        THEN Finish(p, [base EXCEPT !.result = "WalletError_insufficient",
                                    !.amount = amount])
        ELSE /\ proc' = [proc EXCEPT ![p] = [Idle EXCEPT !.pc = "w_verify",
                                                       !.user = user, !.amount = amount]]
             /\ last' = NoLast
  /\ UNCHANGED <<wallets, txns, published, now, statusChanges, balanceMutations>>

BankOutcomes == {"ok", "rejected", "RequestError", "HTTPStatusError"}

\* The exception verify_bank_details, or the check of its answer, raises in the try block.
BankVerificationRaises(outcome) ==
  CASE outcome = "ok" -> "none"
    [] outcome = "rejected" -> "BankVerificationError"
    [] outcome = "RequestError" -> "BankVerificationError"
    [] OTHER -> "HTTPStatusError"

\* lines 388-403 and the handler 451-455
WithdrawVerifyBank(p, outcome) ==
  /\ Ready
  /\ proc[p].pc = "w_verify"
  /\ LET exc == BankVerificationRaises(outcome)
         base == [Outcome("withdraw") EXCEPT !.user = proc[p].user]
         un == ToggleWalletLockKw(wallets, proc[p].user)
     IN IF exc = "none"
        THEN /\ proc' = [proc EXCEPT ![p].pc = "w_lock_read"]
             /\ last' = NoLast
             /\ UNCHANGED wallets
        ELSE IF WithdrawCaught(exc)
        THEN /\ wallets' = un.wallets
             /\ Finish(p, [base EXCEPT !.result = IF un.raised = "none" THEN exc ELSE un.raised])
        ELSE /\ Finish(p, [base EXCEPT !.result = exc])
             /\ UNCHANGED wallets
  /\ UNCHANGED <<txns, published, now, statusChanges, balanceMutations>>

\* lines 405-408, toggle_wallet_lock line 135: the read of the wallet
WithdrawLockRead(p) ==
  /\ Ready
  /\ proc[p].pc = "w_lock_read"
  /\ proc' = [proc EXCEPT ![p].pc = "w_lock_write",
                          ![p].seen = wallets[proc[p].user].is_locked]
  /\ last' = NoLast
  /\ UNCHANGED <<wallets, txns, published, now, statusChanges, balanceMutations>>

\* A withdrawal that takes its amount from the balance when it locks the
\* wallet, for comparison.
WithdrawLockWriteDebiting(p) ==
  /\ Ready
  /\ proc[p].pc = "w_lock_write"
  /\ wallets' = [wallets EXCEPT ![proc[p].user].is_locked = ~proc[p].seen,
                                ![proc[p].user].balance = @ - proc[p].amount]
  /\ proc' = [proc EXCEPT ![p].pc = "w_transfer", ![p].seen = FALSE]
  /\ last' = NoLast
  /\ UNCHANGED <<txns, published, now, statusChanges, balanceMutations>>

\* toggle_wallet_lock lines 138-139: the write of the negated value read
WithdrawLockWrite(p) ==
  /\ Ready
  /\ proc[p].pc = "w_lock_write"
  /\ wallets' = [wallets EXCEPT ![proc[p].user].is_locked = ~proc[p].seen]
  /\ proc' = [proc EXCEPT ![p].pc = "w_transfer", ![p].seen = FALSE]
  /\ last' = NoLast
  /\ UNCHANGED <<txns, published, now, statusChanges, balanceMutations>>

TransferOutcomes == {"ok", "not_success", "RequestError", "HTTPStatusError", "DatabaseError"}

\* What leaves the transaction block of lines 409-450
TransferRaises(outcome) ==
  CASE outcome = "ok" -> "none"
    [] outcome = "not_success" -> "TransactionError"
    [] outcome = "RequestError" -> "PaymentFailedError"
    [] outcome = "HTTPStatusError" -> "HTTPStatusError"
    [] OTHER -> "DatabaseError"

\* lines 409-450 and the handler 451-455
WithdrawTransfer(p, outcome) ==
  /\ Ready
  /\ proc[p].pc = "w_transfer"
  /\ outcome = "ok" => Len(txns) < MaxTxns
  /\ LET exc == TransferRaises(outcome)
         user == proc[p].user
         ref == GenerateTxRef(user, now)
         base == [Outcome("withdraw") EXCEPT !.user = user, !.held = TRUE]
         un == ToggleWalletLockKw(wallets, user)
     IN IF exc = "none"
        THEN /\ txns' = Append(txns, NewTransaction(user, proc[p].amount, "withdraw", ref))
             /\ statusChanges' = Append(statusChanges, 0)
             /\ balanceMutations' = Append(balanceMutations, 0)
             /\ Finish(p, [base EXCEPT !.result = "ok", !.tid = Len(txns) + 1])
             /\ UNCHANGED wallets
        ELSE IF WithdrawCaught(exc)
        THEN /\ wallets' = un.wallets
             /\ Finish(p, [base EXCEPT !.result = IF un.raised = "none" THEN exc ELSE un.raised])
             /\ UNCHANGED <<txns, statusChanges, balanceMutations>>
        ELSE /\ Finish(p, [base EXCEPT !.result = exc])
             /\ UNCHANGED <<wallets, txns, statusChanges, balanceMutations>>
  /\ UNCHANGED <<published, now>>

\* --------------------------------------------------------------------- fund_wallet
FundOutcomes == {"ok", "no_link", "RequestError", "HTTPStatusError", "DatabaseError"}

\* What leaves the transaction block of lines 134-165.  A response without a
\* link raises PaymentFailedError(message) without its user_id: a TypeError.
FundRaises(outcome) ==
  CASE outcome = "ok" -> "none"
    [] outcome = "no_link" -> "TypeError"
    [] outcome = "RequestError" -> "PaymentFailedError"
    [] outcome = "HTTPStatusError" -> "HTTPStatusError"
    [] OTHER -> "DatabaseError"

\* except PaymentFailedError, lines 166-169 (unlock_wallet is True where it is raised)
FundCaught(exc) == exc = "PaymentFailedError"

\* lines 125-169.  The lock call of line 130 is outside the try block.
FundWallet(user, amount, outcome) ==
  LET base == [Outcome("fund") EXCEPT !.user = user]
      lk == ToggleWalletLockKw(wallets, user)
      exc == FundRaises(outcome)
      ref == GenerateTxRef(user, now)
      un == ToggleWalletLockKw(lk.wallets, user)
  IN /\ Ready
     /\ UNCHANGED <<proc, published, now>>
     \* the gateway answers only a request that reaches it
     /\ (wallets[user].is_locked \/ lk.raised # "none") => outcome = "ok"
     /\ IF wallets[user].is_locked
        THEN /\ last' = [base EXCEPT !.result = "WalletError_locked"]
             /\ UNCHANGED <<wallets, txns, statusChanges, balanceMutations>>
        ELSE IF lk.raised # "none"
        THEN /\ last' = [base EXCEPT !.result = lk.raised]
             /\ UNCHANGED <<wallets, txns, statusChanges, balanceMutations>>
        ELSE IF exc = "none"
        THEN /\ Len(txns) < MaxTxns
             /\ wallets' = lk.wallets
             /\ txns' = Append(txns, NewTransaction(user, amount, "fund", ref))
             /\ statusChanges' = Append(statusChanges, 0)
             /\ balanceMutations' = Append(balanceMutations, 0)
             /\ last' = [base EXCEPT !.result = "ok", !.held = TRUE,
                                     !.tid = Len(txns) + 1]
        ELSE IF FundCaught(exc)
        THEN /\ wallets' = un.wallets
             /\ last' = [base EXCEPT !.held = TRUE,
                                     !.result = IF un.raised = "none" THEN exc ELSE un.raised]
             /\ UNCHANGED <<txns, statusChanges, balanceMutations>>
        ELSE /\ wallets' = lk.wallets
             /\ last' = [base EXCEPT !.held = TRUE, !.result = exc]
             /\ UNCHANGED <<txns, statusChanges, balanceMutations>>

\* ---------------------------------------------------------------- purchase_airtime
AirtimeOutcomes == {"RequestError", "other"}

\* lines 89-156.  Past the lock call of line 95 the record of lines 108-117 names
\* TransactionType.AIRTIME_PURCHASE, which the enum does not have: an
\* AttributeError, unless buy_airtime has raised AirtimePurchaseError before it.
\* The balance check of line 92 raises AirtimePurchaseError(message) without its
\* user_id: a TypeError.
PurchaseAirtime(user, amount, outcome) ==
  LET base == [Outcome("airtime") EXCEPT !.user = user, !.amount = amount,
                                         !.before = wallets[user].balance]
      lk == ToggleWalletLockKw(wallets, user)
      un == ToggleWalletLockKw(lk.wallets, user)
  IN /\ Ready
     /\ UNCHANGED <<proc, published, now, txns, statusChanges, balanceMutations>>
     \* the provider answers only a request that reaches it
     /\ (wallets[user].balance < amount \/ lk.raised # "none") => outcome = "other"
     /\ IF wallets[user].balance < amount
        THEN /\ last' = [base EXCEPT !.result = "TypeError"]
             /\ UNCHANGED wallets
        ELSE IF lk.raised # "none"
        THEN /\ last' = [base EXCEPT !.result = lk.raised]
             /\ UNCHANGED wallets
        ELSE IF outcome = "RequestError"
        THEN /\ wallets' = un.wallets
             /\ last' = [base EXCEPT !.held = TRUE,
                                     !.result = IF un.raised = "none"
                                                THEN "AirtimePurchaseError" ELSE un.raised]
        ELSE /\ wallets' = lk.wallets
             /\ last' = [base EXCEPT !.held = TRUE, !.result = "AttributeError"]

\* ---------------------------------------------------------------- payment_redirect
RedirectStatuses == {"successful", "failed"}

\* lines 179-192: the query parameters and the lookup, made without the session
RedirectStart(p, tx_ref, flutterwave_status) ==
  /\ Ready
  /\ proc[p].pc = "idle"
  /\ LET base == Outcome("redirect")
         t == GetByReference(txns, tx_ref)
     IN IF flutterwave_status = "successful"
        THEN Finish(p, [base EXCEPT !.result = "payment_success_page"])
        ELSE IF t = 0
        THEN Finish(p, [base EXCEPT !.result = "payment_failed_page"])
        ELSE /\ proc' = [proc EXCEPT ![p] = [Idle EXCEPT !.pc = "r_update", !.tid = t]]
             /\ last' = NoLast
  /\ UNCHANGED <<wallets, txns, published, now, statusChanges, balanceMutations>>

\* lines 195-198: update_one without the session, committed at once
RedirectUpdate(p) ==
  /\ Ready
  /\ proc[p].pc = "r_update"
  /\ LET t == proc[p].tid
     IN /\ txns' = [txns EXCEPT ![t].status = "failed"]
        /\ statusChanges' = [statusChanges EXCEPT
                               ![t] = IF txns[t].status # "failed" THEN @ + 1 ELSE @]
  /\ proc' = [proc EXCEPT ![p].pc = "r_unlock", ![p].prev = txns[proc[p].tid].status]
  /\ last' = NoLast
  /\ UNCHANGED <<wallets, published, now, balanceMutations>>

\* line 200: the unlock call, and the page or the error the caller gets
RedirectUnlock(p) ==
  /\ Ready
  /\ proc[p].pc = "r_unlock"
  /\ LET t == proc[p].tid
         un == ToggleWalletLockKw(wallets, txns[t].user)
         base == [Outcome("redirect") EXCEPT !.tid = t, !.user = txns[t].user,
                                             !.prev = proc[p].prev]
     IN /\ wallets' = un.wallets
        /\ Finish(p, [base EXCEPT !.result = IF un.raised = "none"
                                             THEN "payment_failed_page" ELSE un.raised])
  /\ UNCHANGED <<txns, published, now, statusChanges, balanceMutations>>

\* ------------------------------------------------------------- webhook reconciler
PaymentEvents ==
  [etype : {"payment"}, ref : AllRefs, status : {"successful", "failed"}, user : EventUsers]
TransferEvents ==
  [etype : {"transfer"}, ref : AllRefs, status : {"SUCCESSFUL", "FAILED"}, user : EventUsers]
\* a payload without a known event type
OtherEvent == [etype |-> "other", ref |-> NoRef, status |-> "none", user |-> NoUser]
Events == PaymentEvents \cup TransferEvents \cup {OtherEvent}

\* What the payload carries besides the fields the processors read: all is
\* there and the signature is the configured hash, or a required field is
\* missing, or the signature is another value.
PayloadChecks == {"ok", "missing_field", "bad_signature"}

\* self.payment_event_types + self.transfer_event_types
ValidEventTypes == {"payment", "transfer"}

\* _validate_payload: the required fields of a payment or of a transfer event;
\* for any other event type the function ends without a return, which is None
ValidatePayload(ev, check) == ev.etype \in ValidEventTypes /\ check # "missing_field"

\* A signature check that lets every signature pass, for comparison.
VerifyWebhookSignatureAlways(check) == TRUE

\* verify_webhook_signature: signature == settings.FLUTTERWAVE_WEBHOOK_HASH
VerifyWebhookSignature(check) == check # "bad_signature"

VerifyAmounts == 0..MaxAmount
VerifyRaised == [status |-> "raised", amount |-> 0, currency |-> "none"]
VerifyFailed == [status |-> "failed", amount |-> 0, currency |-> "none"]
\* what verify_transaction gives: the provider's record, or RequestError after its retries
VerifyOutcomes ==
  [status : {"success"}, amount : VerifyAmounts, currency : Currencies]
    \cup {VerifyFailed, VerifyRaised}

\* The work of one session.start_transaction block: the documents as the block
\* sees them, the fanout messages it has sent, the exception that ended it and
\* whether it has written a balance, and the user whose wallet its unlock call
\* has named.
Session(ws, ts) ==
  [wallets |-> ws, txns |-> ts, pub |-> << >>, raised |-> "none", mutated |-> FALSE,
   target |-> NoUser]

\* transaction_db.update(transaction.id, {"status": status}, session=session)
SsUpdateStatus(ss, t, status) ==
  IF ss.raised # "none" THEN ss
  ELSE [ss EXCEPT !.txns = [ss.txns EXCEPT ![t].status = status]]

\* wallet_db.update_balance(user_id, amount, mode, session=session)
SsUpdateBalance(ss, user_id, amount, mode) ==
  IF ss.raised # "none" THEN ss
  ELSE LET r == UpdateBalance(ss.wallets, user_id, amount, mode)
       IN IF r.raised # "none" THEN [ss EXCEPT !.raised = r.raised]
          ELSE [ss EXCEPT !.wallets = r.wallets, !.mutated = TRUE]

\* _unlock_wallet_if_locked(wallet, session): wallet.user_id of None is an
\* AttributeError, raised while the arguments of the call are evaluated
UnlockWalletIfLocked(ss, wallet) ==
  IF ss.raised # "none" THEN ss
  ELSE IF wallet = NoUser THEN [ss EXCEPT !.raised = "AttributeError"]
  ELSE LET r == ToggleWalletLockKw(ss.wallets, wallet)
       IN IF r.raised # "none" THEN [ss EXCEPT !.raised = r.raised, !.target = wallet]
          ELSE [ss EXCEPT !.wallets = r.wallets, !.target = wallet]

\* A publisher that is reached although an earlier call has raised, for comparison.
SsPublishAlways(ss, t, status, amount) ==
  [ss EXCEPT !.pub = Append(ss.pub, [room |-> ss.txns[t].reference,
                                     tx_ref |-> ss.txns[t].reference,
                                     status |-> status, amount |-> amount])]

\* websocket_publisher.publish_message(transaction.reference, {...})
SsPublish(ss, t, status, amount) ==
  IF ss.raised # "none" THEN ss
  ELSE [ss EXCEPT !.pub = Append(ss.pub, [room |-> ss.txns[t].reference,
                                         tx_ref |-> ss.txns[t].reference,
                                         status |-> status, amount |-> amount])]

\* the condition of _handle_payment_success, lines 574-578
VerificationAccepted(verify, transaction) ==
  /\ verify.status = "success"
  /\ verify.amount >= transaction.amount
  /\ verify.currency = transaction.currency

\* _handle_payment_success after verify_transaction has answered
HandlePaymentSuccess(ss, t, verify) ==
  IF verify = VerifyRaised
  THEN [ss |-> [ss EXCEPT !.raised = "RequestError"], result |-> "none"]
  ELSE IF VerificationAccepted(verify, ss.txns[t])
  THEN LET s1 == SsUpdateStatus(ss, t, "success")
           s2 == SsUpdateBalance(s1, ss.txns[t].user, verify.amount, "add")
           s3 == UnlockWalletIfLocked(s2, ss.txns[t].user)
       IN [ss |-> SsPublish(s3, t, "success", verify.amount), result |-> "success"]
  ELSE [ss |-> ss, result |-> "error_mismatch"]

\* _handle_payment_failure and _handle_transfer_failure
HandleFailure(ss, t, wallet) ==
  LET s1 == SsUpdateStatus(ss, t, "failed")
      s2 == UnlockWalletIfLocked(s1, wallet)
  IN [ss |-> SsPublish(s2, t, "failed", ss.txns[t].amount), result |-> "failed"]

\* _handle_transfer_success
HandleTransferSuccess(ss, t) ==
  LET s1 == SsUpdateStatus(ss, t, "success")
      s2 == SsUpdateBalance(s1, ss.txns[t].user, ss.txns[t].amount, "subtract")
      s3 == UnlockWalletIfLocked(s2, ss.txns[t].user)
  IN [ss |-> SsPublish(s3, t, "success", ss.txns[t].amount), result |-> "success"]

\* A processor that skipped only what had succeeded, for comparison.
AlreadyResolvedSuccessOnly(status) == status = "success"

\* lines 309-313 and 372-376: the transaction has been resolved before
AlreadyResolved(status) == status \in Terminal

\* the status each processor takes for a success: lines 320 and 383
IsSuccessEvent(ev) ==
  \/ ev.etype = "payment" /\ ev.status = "successful"
  \/ ev.etype = "transfer" /\ ev.status = "SUCCESSFUL"

\* _payment_webhook_processor and _transfer_webhook_processor, but for the
\* branch that calls the provider
Processor(ss, ev) ==
  LET t == GetByReference(ss.txns, ev.ref)
      wallet == GetByUserId(ss.wallets, ev.user)
  IN IF t = 0
     THEN [ss |-> UnlockWalletIfLocked(ss, wallet), result |-> "error_not_found"]
     ELSE IF AlreadyResolved(ss.txns[t].status)
     THEN [ss |-> ss, result |-> "skipped"]
     ELSE IF ev.etype = "transfer" /\ IsSuccessEvent(ev)
     THEN HandleTransferSuccess(ss, t)
     ELSE HandleFailure(ss, t, wallet)

\* process_webhook lines 499-516: the block commits, or an exception rolls it
\* back and is turned into an "error" result.  Messages already sent stay sent.
Commit(p, run, base) ==
  LET ss == run.ss
      ok == ss.raised = "none"
      S == 1..Len(txns)
  IN /\ wallets' = IF ok THEN ss.wallets ELSE wallets
     /\ txns' = IF ok THEN ss.txns ELSE txns
     /\ published' = published \o ss.pub
     /\ statusChanges' = [t \in S |-> IF ok /\ ss.txns[t].status # txns[t].status
                                      THEN statusChanges[t] + 1 ELSE statusChanges[t]]
     /\ balanceMutations' = [t \in S |-> IF ok /\ ss.mutated /\ t = base.tid
                                         THEN balanceMutations[t] + 1
                                         ELSE balanceMutations[t]]
     /\ Finish(p, [base EXCEPT !.result = IF ok THEN run.result ELSE "error_unexpected",
                               !.target = ss.target])

\* process_webhook up to the first await on the provider
WebhookStart(p, ev, check) ==
  /\ Ready
  /\ proc[p].pc = "idle"
  \* a payload that lacks a field is not read any further
  /\ check = "missing_field" => ev = OtherEvent
  /\ UNCHANGED now
  /\ LET t == GetByReference(txns, ev.ref)
         rejected == [Outcome("webhook") EXCEPT !.check = check]
         base == [rejected EXCEPT
                    !.user = ev.user, !.etype = ev.etype, !.evstatus = ev.status,
                    !.tid = t, !.prev = IF t = 0 THEN "none" ELSE txns[t].status]
     IN IF ~ValidatePayload(ev, check)
        THEN /\ Finish(p, [rejected EXCEPT !.result = "error_missing"])
             /\ UNCHANGED <<wallets, txns, published, statusChanges, balanceMutations>>
        ELSE IF ~VerifyWebhookSignature(check)
        THEN /\ Finish(p, [rejected EXCEPT !.result = "error_signature"])
             /\ UNCHANGED <<wallets, txns, published, statusChanges, balanceMutations>>
        ELSE IF ev.etype \notin ValidEventTypes
        THEN /\ Finish(p, [rejected EXCEPT !.result = "ignored"])
             /\ UNCHANGED <<wallets, txns, published, statusChanges, balanceMutations>>
        ELSE IF /\ t # 0
                /\ ~AlreadyResolved(txns[t].status)
                /\ ev.etype = "payment"
                /\ IsSuccessEvent(ev)
        THEN /\ proc' = [proc EXCEPT ![p] =
                           [Idle EXCEPT !.pc = "h_verify", !.tid = t, !.user = ev.user,
                                        !.mode = check, !.snapT = txns[t],
                                        !.snapW = wallets[txns[t].user]]]
             /\ last' = NoLast
             /\ UNCHANGED <<wallets, txns, published, statusChanges, balanceMutations>>
        ELSE Commit(p, Processor(Session(wallets, txns), ev), base)

\* A write of the block meets a document committed after its snapshot was taken.
WriteConflict(p) ==
  \/ txns[proc[p].tid] # proc[p].snapT
  \/ wallets[proc[p].snapT.user] # proc[p].snapW

\* _handle_payment_success from the answer of verify_transaction to the end of the block
WebhookVerified(p, verify) ==
  /\ Ready
  /\ proc[p].pc = "h_verify"
  /\ UNCHANGED now
  /\ LET t == proc[p].tid
         owner == proc[p].snapT.user
         base == [Outcome("webhook") EXCEPT
                    !.user = proc[p].user, !.etype = "payment", !.evstatus = "successful",
                    !.tid = t, !.prev = proc[p].snapT.status, !.verify = verify,
                    !.before = proc[p].snapW.balance, !.check = proc[p].mode]
         snapshot == Session([wallets EXCEPT ![owner] = proc[p].snapW],
                             [txns EXCEPT ![t] = proc[p].snapT])
         run == HandlePaymentSuccess(snapshot, t, verify)
         wrote == run.ss.txns # snapshot.txns \/ run.ss.wallets # snapshot.wallets
         current == Session(wallets, txns)
     IN IF ~wrote
        THEN Commit(p, [ss |-> [current EXCEPT !.raised = run.ss.raised,
                                               !.target = run.ss.target],
                        result |-> run.result], base)
        ELSE IF WriteConflict(p)
        THEN Commit(p, [ss |-> [current EXCEPT !.raised = "WriteConflict"],
                        result |-> "none"], base)
        ELSE Commit(p, run, base)

Next ==
  \/ Respond /\ UNCHANGED aside
  \/ Tick /\ UNCHANGED aside
  \/ \E p \in Procs, u \in Users, a \in Amounts : WithdrawStart(p, u, a) /\ UNCHANGED aside
  \/ \E p \in Procs, o \in BankOutcomes : WithdrawVerifyBank(p, o) /\ UNCHANGED aside
  \/ \E p \in Procs : WithdrawLockRead(p) /\ UNCHANGED aside
  \/ \E p \in Procs : WithdrawLockWrite(p) /\ UNCHANGED aside
  \/ \E p \in Procs, o \in TransferOutcomes : WithdrawTransfer(p, o) /\ UNCHANGED aside
  \/ \E u \in Users, a \in Amounts, o \in FundOutcomes : FundWallet(u, a, o) /\ UNCHANGED aside
  \/ \E u \in Users, a \in Amounts, o \in AirtimeOutcomes : PurchaseAirtime(u, a, o) /\ UNCHANGED aside
  \/ \E p \in Procs, r \in AllRefs, s \in RedirectStatuses : RedirectStart(p, r, s) /\ UNCHANGED aside
  \/ \E p \in Procs : RedirectUpdate(p) /\ UNCHANGED aside
  \/ \E p \in Procs : RedirectUnlock(p) /\ UNCHANGED aside
  \/ \E p \in Procs, ev \in Events, c \in PayloadChecks : WebhookStart(p, ev, c) /\ UNCHANGED aside
  \/ \E p \in Procs, v \in VerifyOutcomes : WebhookVerified(p, v) /\ UNCHANGED aside

Spec == Init /\ [][Next]_vars

\* -------------------------------------------------------------- scheduling
\* the deliveries of well-formed, correctly signed events that carry reference
\* r and name its owner
Delivery(r) ==
  \E p \in Procs, ev \in PaymentEvents \cup TransferEvents :
    /\ ev.ref = r
    /\ ev.user = r[1]
    /\ WebhookStart(p, ev, "ok")
    /\ UNCHANGED aside

\* the steps of handlers that are running: the event loop runs every task
\* that can go on, and a provider call returns
Progress ==
  \/ Respond /\ UNCHANGED aside
  \/ \E p \in Procs, o \in BankOutcomes : WithdrawVerifyBank(p, o) /\ UNCHANGED aside
  \/ \E p \in Procs : WithdrawLockRead(p) /\ UNCHANGED aside
  \/ \E p \in Procs : WithdrawLockWrite(p) /\ UNCHANGED aside
  \/ \E p \in Procs, o \in TransferOutcomes : WithdrawTransfer(p, o) /\ UNCHANGED aside
  \/ \E p \in Procs : RedirectUpdate(p) /\ UNCHANGED aside
  \/ \E p \in Procs : RedirectUnlock(p) /\ UNCHANGED aside
  \/ \E p \in Procs, v \in VerifyOutcomes : WebhookVerified(p, v) /\ UNCHANGED aside

\* No handler stops for ever, and the events of every reference keep being
\* delivered and processed.
SpecLive ==
  /\ Spec
  /\ WF_vars(Progress)
  /\ \A r \in AllRefs : SF_vars(Delivery(r))

\* ------------------------------------------------------------- two wallets
PairUsers == 1..NumPairUsers

\* the references of requests made at second 0
PairRefs == {GenerateTxRef(u, 0) : u \in PairUsers}

\* events that carry the reference of one user and name any of them
PairEvents ==
  [etype : {"payment", "transfer"}, ref : PairRefs, status : {"successful", "SUCCESSFUL", "FAILED"},
   user : PairUsers]

InitPair ==
  /\ wallets = [u \in PairUsers |-> [balance |-> OpeningBalance, is_locked |-> FALSE]]
  /\ txns = << >>
  /\ published = << >>
  /\ proc = [p \in Procs |-> Idle]
  /\ last = NoLast
  /\ now = 0
  /\ statusChanges = << >>
  /\ balanceMutations = << >>
  /\ InitFanout

NextPair ==
  \/ Respond /\ UNCHANGED aside
  \/ \E p \in Procs, u \in PairUsers : WithdrawStart(p, u, OpeningBalance) /\ UNCHANGED aside
  \/ \E p \in Procs : WithdrawVerifyBank(p, "ok") /\ UNCHANGED aside
  \/ \E p \in Procs : WithdrawLockRead(p) /\ UNCHANGED aside
  \/ \E p \in Procs : WithdrawLockWrite(p) /\ UNCHANGED aside
  \/ \E p \in Procs, o \in TransferOutcomes : WithdrawTransfer(p, o) /\ UNCHANGED aside
  \/ \E u \in PairUsers : FundWallet(u, OpeningBalance, "ok") /\ UNCHANGED aside
  \/ \E p \in Procs, r \in PairRefs, st \in RedirectStatuses : RedirectStart(p, r, st) /\ UNCHANGED aside
  \/ \E p \in Procs : RedirectUpdate(p) /\ UNCHANGED aside
  \/ \E p \in Procs : RedirectUnlock(p) /\ UNCHANGED aside
  \/ \E p \in Procs, ev \in PairEvents : WebhookStart(p, ev, "ok") /\ UNCHANGED aside
  \/ \E p \in Procs, v \in VerifyOutcomes : WebhookVerified(p, v) /\ UNCHANGED aside

SpecPair == InitPair /\ [][NextPair]_vars

\* ----------------------------------------------------------- wallet creation
\* the key of the first wallet document of the user, 0 for None
FindWallet(docs, user_id) ==
  LET S == {i \in 1..Len(docs) : docs[i].user_id = user_id}
  IN IF S = {} THEN 0 ELSE CHOOSE i \in S : \A j \in S : i <= j

\* the unique index on wallets.user_id: an insert of a key that is there
\* raises DuplicateKeyError
UniqueIndexRejects(docs, user_id) == FindWallet(docs, user_id) # 0

\* WalletDB.create lines 72-76: the lookup, and the error if a wallet is found
CreateRead(p, user_id) ==
  /\ creating[p].pc = "idle"
  /\ creating' = [creating EXCEPT ![p] =
                    IF FindWallet(walletDocs, user_id) # 0
                    THEN [pc |-> "idle", user_id |-> user_id,
                          result |-> "ObjectAlreadyExistsError"]
                    ELSE [pc |-> "c_insert", user_id |-> user_id, result |-> "none"]]
  /\ UNCHANGED <<walletDocs, wallets, txns, published, proc, last, now, statusChanges,
                 balanceMutations, fanout, retry, worker>>

\* WalletDB.create lines 78-79 and BaseDB.create lines 165-171: insert_one, and
\* a PyMongoError turned into DatabaseError
CreateInsert(p) ==
  /\ creating[p].pc = "c_insert"
  /\ IF UniqueIndexRejects(walletDocs, creating[p].user_id)
     THEN /\ creating' = [creating EXCEPT ![p].pc = "idle", ![p].result = "DatabaseError"]
          /\ UNCHANGED walletDocs
     ELSE /\ creating' = [creating EXCEPT ![p].pc = "idle", ![p].result = "ok"]
          /\ walletDocs' = Append(walletDocs, [user_id |-> creating[p].user_id,
                                               balance |-> 0, is_locked |-> FALSE])
  /\ UNCHANGED <<wallets, txns, published, proc, last, now, statusChanges,
                 balanceMutations, fanout, retry, worker>>

NextCreate ==
  \/ \E p \in Procs, u \in PairUsers : CreateRead(p, u)
  \/ \E p \in Procs : CreateInsert(p)

SpecCreate == Init /\ [][NextCreate]_vars

\* ---------------------------------------------------------- the HTTP client
Methods == {"get", "post", "put", "delete"}

\* what one attempt gives: a response with a good status, an exception of the
\* transport (httpx.RequestError), or a response with an error status, for
\* which raise_for_status raises httpx.HTTPStatusError
AttemptOutcomes == {"ok", "RequestError", "HTTPStatusError"}

\* the except clauses: get names (httpx.RequestError or httpx.HTTPStatusError),
\* which is httpx.RequestError; the others name httpx.RequestError
Caught(method, exc) == exc = "RequestError"

\* AsyncClient.get, post, put, delete: the call, with max_retries >= 1
ClientCall(method, max_retries) ==
  /\ request.pc \in {"idle", "done"}
  /\ request' = [NoRequest EXCEPT !.pc = "try", !.method = method,
                                  !.max_retries = max_retries]
  /\ UNCHANGED <<wallets, txns, published, proc, last, now, statusChanges,
                 balanceMutations, fanout, creation, worker>>

\* one turn of the loop: the request, raise_for_status and the except clause
ClientAttempt(outcome) ==
  /\ request.pc = "try"
  /\ LET made == [request EXCEPT !.log = Append(@, outcome)]
     IN request' =
          IF outcome = "ok"
          THEN [made EXCEPT !.pc = "done", !.result = "response"]
          ELSE IF ~Caught(request.method, outcome)
          THEN [made EXCEPT !.pc = "done", !.result = outcome]
          ELSE IF request.attempt < request.max_retries - 1
          THEN [made EXCEPT !.pc = "sleep"]
          ELSE [made EXCEPT !.pc = "done", !.result = "RequestError"]
  /\ UNCHANGED <<wallets, txns, published, proc, last, now, statusChanges,
                 balanceMutations, fanout, creation, worker>>

\* asyncio.sleep(retry_delay), then the next turn
ClientSleep ==
  /\ request.pc = "sleep"
  /\ request' = [request EXCEPT !.pc = "try", !.attempt = @ + 1]
  /\ UNCHANGED <<wallets, txns, published, proc, last, now, statusChanges,
                 balanceMutations, fanout, creation, worker>>

NextRetry ==
  \/ \E m \in Methods, n \in 1..MaxRetries : ClientCall(m, n)
  \/ \E o \in AttemptOutcomes : ClientAttempt(o)
  \/ ClientSleep

SpecRetry == Init /\ [][NextRetry]_vars

\* ------------------------------------------------------- the queue's consumer
Messages == 1..MaxMessages

\* what a message body is: the JSON text publish_flutter_event writes, or
\* bytes that json.loads rejects
Bodies == {"json", "not_json"}

\* how process_webhook ends: with a result of status success, with a result
\* of status error, ignored or skipped, or with an exception
ProcessOutcomes == {"success", "error", "raises"}

\* A handler whose except clause lets the exception leave the block, for comparison.
HandlerCatchesNothing(exc) == FALSE

\* worker.py line 18: except Exception
HandlerCatches(exc) == exc \in {"JSONDecodeError", "Exception"}

\* publish_flutter_event: a persistent message on wallet.events
PublishFlutterEvent(m, body) ==
  /\ inbox[m].state = "none"
  /\ inbox' = [inbox EXCEPT ![m] = [NoMessage EXCEPT !.state = "queued", !.body = body]]
  /\ UNCHANGED <<wallets, txns, published, proc, last, now, statusChanges,
                 balanceMutations, fanout, creation, retry>>

\* queue.consume hands the message to handle_message, which enters
\* message.process and decodes the body
HandleMessage(m) ==
  /\ inbox[m].state = "queued"
  /\ inbox' = [inbox EXCEPT ![m].state =
                 IF inbox[m].body = "json" THEN "reconciling" ELSE "leaving",
                            ![m].outcome =
                 IF inbox[m].body = "json" THEN "none"
                 ELSE IF HandlerCatches("JSONDecodeError") THEN "logged" ELSE "raised"]
  /\ UNCHANGED <<wallets, txns, published, proc, last, now, statusChanges,
                 balanceMutations, fanout, creation, retry>>

\* await process_webhook(payload), and the except clause
ProcessWebhook(m, outcome) ==
  /\ inbox[m].state = "reconciling"
  /\ inbox' = [inbox EXCEPT ![m].state = "leaving",
                            ![m].runs = @ + 1,
                            ![m].outcome =
                 IF outcome # "raises" THEN outcome
                 ELSE IF HandlerCatches("Exception") THEN "logged" ELSE "raised"]
  /\ UNCHANGED <<wallets, txns, published, proc, last, now, statusChanges,
                 balanceMutations, fanout, creation, retry>>

\* the end of the block of message.process(ignore_processed=True), whose
\* requeue is False: the message is acknowledged, or rejected without requeue
\* if an exception leaves the block
ProcessExit(m) ==
  /\ inbox[m].state = "leaving"
  /\ inbox' = [inbox EXCEPT ![m].state = "processed",
                            ![m].acks = IF inbox[m].outcome = "raised" THEN @ ELSE @ + 1,
                            ![m].rejects = IF inbox[m].outcome = "raised" THEN @ + 1 ELSE @]
  /\ UNCHANGED <<wallets, txns, published, proc, last, now, statusChanges,
                 balanceMutations, fanout, creation, retry>>

NextWorker ==
  \/ \E m \in Messages, b \in Bodies : PublishFlutterEvent(m, b)
  \/ \E m \in Messages : HandleMessage(m)
  \/ \E m \in Messages, o \in ProcessOutcomes : ProcessWebhook(m, o)
  \/ \E m \in Messages : ProcessExit(m)

SpecWorker == Init /\ [][NextWorker]_vars

\* ------------------------------------------------ the ledger's balance mutation alone
UpdateModes == {"add", "subtract"}

\* Any balance the store can hold, no request running.
InitLedger ==
  /\ wallets \in [Users -> [balance : 0..LedgerMaxBalance, is_locked : {FALSE}]]
  /\ txns = << >>
  /\ published = << >>
  /\ proc = [p \in Procs |-> Idle]
  /\ last = NoLast
  /\ now = 0
  /\ statusChanges = << >>
  /\ balanceMutations = << >>
  /\ InitFanout

\* update_balance lines 103-113: the read of the wallet, the new balance and
\* the rejection of a missing wallet or of a negative result
UpdateBalanceRead(p, user_id, amount, mode) ==
  /\ Ready
  /\ proc[p].pc = "idle"
  /\ (mode = "add" /\ user_id \in Users) =>
       wallets[user_id].balance + amount <= LedgerMaxBalance
  /\ LET r == UpdateBalance(wallets, user_id, amount, mode)
         read == IF user_id \in Users THEN wallets[user_id] ELSE NoWallet
         base == [Outcome("update_balance") EXCEPT
                    !.user = user_id, !.amount = amount, !.mode = mode,
                    !.before = read.balance]
     IN IF r.raised # "none"
        THEN Finish(p, [base EXCEPT !.result = r.raised])
        ELSE /\ proc' = [proc EXCEPT ![p] =
                           [Idle EXCEPT !.pc = "u_write", !.user = user_id,
                                        !.amount = amount, !.mode = mode, !.snapW = read,
                                        !.new_balance = r.wallets[user_id].balance]]
             /\ UNCHANGED last
  /\ UNCHANGED <<wallets, txns, published, now, statusChanges, balanceMutations>>

\* update_balance lines 114-115: the write of the balance computed from the read
UpdateBalanceWrite(p) ==
  /\ Ready
  /\ proc[p].pc = "u_write"
  /\ wallets' = [wallets EXCEPT ![proc[p].user].balance = proc[p].new_balance]
  /\ Finish(p, [Outcome("update_balance") EXCEPT
                  !.result = "ok", !.user = proc[p].user, !.amount = proc[p].amount,
                  !.mode = proc[p].mode, !.before = proc[p].snapW.balance])
  /\ UNCHANGED <<txns, published, now, statusChanges, balanceMutations>>

NextLedger ==
  \/ Respond /\ UNCHANGED aside
  \/ \E p \in Procs, u \in EventUsers, a \in Amounts, m \in UpdateModes :
       UpdateBalanceRead(p, u, a, m) /\ UNCHANGED aside
  \/ \E p \in Procs : UpdateBalanceWrite(p) /\ UNCHANGED aside

SpecLedger == InitLedger /\ [][NextLedger]_vars

\* ---------------------------------------------- the fanout to websocket clients
store == <<wallets, txns, proc, last, now, statusChanges, balanceMutations, creation, retry,
           worker>>

\* ConnectionManager.connect(room, connection)
Connect(cs, room, c) ==
  IF room \in DOMAIN cs
  THEN [cs EXCEPT ![room] = @ \cup {c}]
  ELSE [r \in DOMAIN cs \cup {room} |-> IF r = room THEN {c} ELSE cs[r]]

\* ConnectionManager.disconnect(room, connection): the room goes with its last
\* connection
Disconnect(cs, room, c) ==
  IF room \notin DOMAIN cs THEN cs
  ELSE IF cs[room] \ {c} = {}
  THEN [r \in DOMAIN cs \ {room} |-> cs[r]]
  ELSE [cs EXCEPT ![room] = @ \ {c}]

\* the messages whose broadcast is over
Broadcasted == IF lis.pc = "send" THEN lis.idx - 1 ELSE lis.idx

\* websocket_endpoint lines 16-29: accept, read tx_ref, manager.connect
WsConnect(c, room) ==
  /\ socket[c].state = "closed"
  /\ socket' = [socket EXCEPT ![c] = [state |-> "open", room |-> room]]
  /\ connections' = Connect(connections, room, c)
  /\ received' = [received EXCEPT ![c] = << >>]
  /\ since' = [since EXCEPT ![c] = Broadcasted]
  /\ UNCHANGED <<lis, published, store>>

\* the client goes away; its handler is still waiting in receive_text
ClientDrop(c) ==
  /\ socket[c].state = "open"
  /\ socket' = [socket EXCEPT ![c].state = "broken"]
  /\ UNCHANGED <<connections, received, since, lis, published, store>>

\* websocket_endpoint lines 33-34: WebSocketDisconnect, manager.disconnect.
\* A broadcast that is iterating the set of the room keeps that set object
\* when the room is deleted.
WsDisconnect(c) ==
  /\ socket[c].state = "broken"
  /\ LET room == socket[c].room
         after == Disconnect(connections, room, c)
     IN /\ connections' = after
        /\ lis' = IF lis.pc = "send" /\ lis.room = room /\ ~lis.detached
                     /\ room \in DOMAIN connections /\ room \notin DOMAIN after
                  THEN [lis EXCEPT !.detached = TRUE]
                  ELSE lis
  /\ socket' = [socket EXCEPT ![c].state = "closed"]
  /\ UNCHANGED <<received, since, published, store>>

PublishStatuses == {"success", "failed"}

\* publish_message(room, payload) of a handler that reaches it: one message
\* on the channel, at most one for a reference
PublishMessage(room, status) ==
  /\ \A i \in 1..Len(published) : published[i].room # room
  /\ published' = Append(published, [room |-> room, tx_ref |-> room, status |-> status,
                                     amount |-> 1])
  /\ UNCHANGED <<fanout, store>>

\* A listener that reads the channel from its start each time, for comparison.
NextMessageFirst(cur) == 1

\* the message the listener takes after having taken cur of them
NextMessage(cur) == cur + 1

\* listen lines 33-40 and broadcast line 63: the next message of the channel;
\* a room nobody is registered for is logged
Listen ==
  /\ lis.pc = "wait"
  /\ NextMessage(lis.idx) <= Len(published)
  /\ LET i == NextMessage(lis.idx)
         room == published[i].room
     IN lis' = IF room \in DOMAIN connections
               THEN [Waiting EXCEPT !.pc = "send", !.idx = lis.idx + 1, !.msg = i,
                                    !.room = room,
                                    !.used = Cardinality(connections[room])]
               ELSE [Waiting EXCEPT !.idx = lis.idx + 1, !.msg = i]
  /\ UNCHANGED <<connections, socket, received, since, published, store>>

\* the set the loop of broadcast iterates has another size than when the loop began
SetChanged ==
  IF lis.detached THEN TRUE ELSE Cardinality(connections[lis.room]) # lis.used

\* the connections the loop has still to reach
Remaining == IF SetChanged THEN {} ELSE connections[lis.room] \ lis.visited

\* broadcast line 64, the iterator's next(): "Set changed size during
\* iteration", which nothing catches; the listener task ends
BroadcastAbort ==
  /\ lis.pc = "send"
  /\ SetChanged
  /\ lis' = [lis EXCEPT !.pc = "dead", !.raised = "RuntimeError"]
  /\ UNCHANGED <<connections, socket, received, since, published, store>>

\* broadcast line 64: the loop is through
BroadcastDone ==
  /\ lis.pc = "send"
  /\ ~SetChanged
  /\ Remaining = {}
  /\ lis' = [lis EXCEPT !.pc = "wait"]
  /\ UNCHANGED <<connections, socket, received, since, published, store>>

\* what send_text raises on a socket whose client is gone
SendErrors == {"WebSocketException", "RuntimeError"}

\* broadcast lines 65-69: send_text to one connection.  After a
\* WebSocketException the connection is removed and "await" is applied to the
\* None that disconnect returns, a TypeError; any other exception is not
\* caught.  Either ends the listener task.
BroadcastSend(c, exc) ==
  /\ lis.pc = "send"
  /\ c \in Remaining
  /\ (exc = "none") <=> (socket[c].state = "open")
  /\ IF exc = "none"
     THEN /\ received' = [received EXCEPT ![c] = Append(@, lis.msg)]
          /\ lis' = [lis EXCEPT !.visited = @ \cup {c}]
          /\ UNCHANGED connections
     ELSE IF exc = "WebSocketException"
     THEN /\ connections' = Disconnect(connections, lis.room, c)
          /\ lis' = [lis EXCEPT !.pc = "dead", !.raised = "TypeError"]
          /\ UNCHANGED received
     ELSE /\ lis' = [lis EXCEPT !.pc = "dead", !.raised = exc]
          /\ UNCHANGED <<connections, received>>
  /\ UNCHANGED <<socket, since, published, store>>

NextFanout ==
  \/ \E c \in Conns, r \in Rooms : WsConnect(c, r)
  \/ \E c \in Conns : ClientDrop(c)
  \/ \E c \in Conns : WsDisconnect(c)
  \/ \E r \in Rooms, st \in PublishStatuses : PublishMessage(r, st)
  \/ Listen
  \/ BroadcastAbort
  \/ BroadcastDone
  \/ \E c \in Conns, e \in SendErrors \cup {"none"} : BroadcastSend(c, e)

SpecFanout == Init /\ [][NextFanout]_vars

\* ======================================================================= claims
TxnIds == 1..Len(txns)
PendingOf(u) == {t \in TxnIds : txns[t].user = u /\ txns[t].status = "pending"}

\* C1: every wallet's balance is >= 0, and a balance mutation that would make
\* the balance negative is rejected with an error and leaves the balance as it
\* was read; it is never clamped.  (SpecLedger)
BalanceNeverNegative ==
  /\ \A u \in Users : wallets[u].balance >= 0
  /\ (/\ last.kind = "update_balance"
      /\ last.user \in Users
      /\ last.mode = "subtract"
      /\ last.before < last.amount)
       => (last.result = "WalletError" /\ wallets[last.user].balance = last.before)

\* C1 witness: a subtraction larger than a positive balance has been rejected.
OverdraftRejected ==
  /\ last.kind = "update_balance"
  /\ last.user \in Users
  /\ last.mode = "subtract"
  /\ last.before > 0
  /\ last.before < last.amount
  /\ last.result = "WalletError"

\* C2 as stated: of the requests running on one wallet at most one has
\* acquired its lock, so no two of them are past the lock write together.
LockAcquiredByAtMostOne ==
  \A p, q \in Procs :
    (p # q /\ proc[p].pc = "w_transfer" /\ proc[q].pc = "w_transfer")
      => proc[p].user # proc[q].user

\* C3 as stated: each wallet has at most one transaction in status pending.
AtMostOnePending == \A u \in Users : Cardinality(PendingOf(u)) <= 1

\* C4 as stated: once a well-formed, signed delivery carrying the reference of
\* a transaction and naming its owner has been reconciled, the status of that transaction has
\* changed exactly once and its balance has been mutated at most once.
DeliveryResolvesExactlyOnce ==
  (/\ last.kind = "webhook"
   /\ last.tid # 0
   /\ last.user = txns[last.tid].user
   /\ last.result \notin {"error_missing", "error_signature", "ignored"})
    => (statusChanges[last.tid] = 1 /\ balanceMutations[last.tid] <= 1)

StatusIsTerminal ==
  [][/\ Len(txns') >= Len(txns)
     /\ \A t \in TxnIds :
          /\ txns[t].status \in Terminal => txns'[t].status = txns[t].status
          /\ txns'[t].status # txns[t].status => txns[t].status = "pending"
          /\ statusChanges'[t] <= 1]_vars

\* C6 witness: the redirect callback has run its update on a transaction that
\* was failed already.
RedirectOnResolved ==
  /\ last.kind = "redirect"
  /\ last.tid # 0
  /\ last.prev = "failed"
  /\ txns[last.tid].status = "failed"

\* An operation that still holds the lock of wallet u: a pending transaction
\* of the wallet, or a withdrawal between its lock write and its record.
LockHeldFor(u) ==
  \/ PendingOf(u) # {}
  \/ \E p \in Procs : proc[p].pc = "w_transfer" /\ proc[p].user = u

\* C7 as stated: no state has the status of a resolution applied without its
\* lock release, i.e. a transaction success or failed while its wallet is
\* still locked and no other operation holds that lock.
ResolutionIsAtomic ==
  \A t \in TxnIds :
    (txns[t].status \in Terminal /\ wallets[txns[t].user].is_locked)
      => LockHeldFor(txns[t].user)

\* the provider's record disagrees with the pending record, or reports no success
VerificationMismatch(verify, transaction) ==
  /\ verify.status \in {"success", "failed"}
  /\ \/ verify.status # "success"
     \/ verify.amount # transaction.amount
     \/ verify.currency # transaction.currency

\* C9 as stated: after a success event for a pending transaction has been
\* reconciled with a verification that disagrees with the record, the
\* transaction is failed, its wallet is unlocked and the balance is unchanged.
MismatchResolvesFailed ==
  (/\ last.kind = "webhook"
   /\ last.etype = "payment"
   /\ last.evstatus = "successful"
   /\ last.prev = "pending"
   /\ VerificationMismatch(last.verify, txns[last.tid]))
    => (/\ txns[last.tid].status = "failed"
        /\ ~wallets[txns[last.tid].user].is_locked
        /\ wallets[txns[last.tid].user].balance = last.before)

\* C10 as stated: a fund or withdraw initiation that acquired the lock and
\* ended with an error leaves its wallet unlocked when the error is surfaced.
InitiationErrorUnlocks ==
  (/\ last.kind \in {"fund", "withdraw"}
   /\ last.held
   /\ last.result # "ok")
    => ~wallets[last.user].is_locked

\* C11 as stated: after a reconciliation of a pending transaction has been
\* aborted by an exception (the verification call raising after its retries,
\* or any other), the transaction is failed and its wallet is unlocked.
AbortedReconciliationFails ==
  (/\ last.kind = "webhook"
   /\ last.prev = "pending"
   /\ last.result = "error_unexpected")
    => (/\ txns[last.tid].status = "failed"
        /\ ~wallets[txns[last.tid].user].is_locked)

\* a process inside a withdrawal, past its checks of the wallet
InWithdrawal(p) == proc[p].pc \in {"w_verify", "w_lock_read", "w_lock_write", "w_transfer"}

\* C12: a withdraw request for more than the balance is rejected in the step
\* that reads the wallet: no bank verification or transfer call follows, and
\* the wallet (unlocked), the balance, the transactions and the fanout are
\* unchanged; no request for more than the balance gets past that step.
OverdrawnWithdrawRejected ==
  [][/\ (last'.kind = "withdraw" /\ last'.result = "WalletError_insufficient")
          => (/\ last'.amount > wallets[last'.user].balance
              /\ ~wallets'[last'.user].is_locked
              /\ wallets' = wallets
              /\ txns' = txns
              /\ published' = published
              /\ \A p \in Procs : InWithdrawal(p) <=> InWithdrawal(p)')
     /\ \A p \in Procs :
          (~InWithdrawal(p) /\ InWithdrawal(p)')
            => proc'[p].amount <= wallets[proc'[p].user].balance]_vars

\* C12 witness: a withdrawal of more than the balance has been rejected.
OverdrawnWithdrawSeen ==
  /\ last.kind = "withdraw"
  /\ last.result = "WalletError_insufficient"
  /\ last.amount > wallets[last.user].balance
  /\ ~wallets[last.user].is_locked

\* the published events that carry the reference of transaction t
EventsFor(pub, t) == SelectSeq(pub, LAMBDA e : e.tx_ref = txns[t].reference)

\* C13 as stated: the step that reconciles a non-success event, naming the
\* owner, for a pending transaction whose wallet is locked leaves the
\* transaction failed and the wallet unlocked with the same balance, and adds
\* exactly one fanout event, with status failed, for that reference.
FailureEventResolves ==
  [][(/\ last = NoLast
      /\ last'.kind = "webhook"
      /\ last'.check = "ok"
      /\ last'.prev = "pending"
      /\ last'.evstatus \in {"failed", "FAILED"}
      /\ last'.user = txns[last'.tid].user
      /\ wallets[last'.user].is_locked)
       => (/\ txns'[last'.tid].status = "failed"
           /\ ~wallets'[last'.user].is_locked
           /\ wallets'[last'.user].balance = wallets[last'.user].balance
           /\ Len(EventsFor(published', last'.tid)) = Len(EventsFor(published, last'.tid)) + 1
           /\ published'[Len(published')].status = "failed")]_vars

\* C14: at most one fanout event is ever published for a reference, whatever
\* deliveries of events for it are made and however they interleave.
AtMostOneEventPerReference ==
  \A i, j \in 1..Len(published) :
    published[i].tx_ref = published[j].tx_ref => i = j

\* C14 witness: an event for a transaction has been processed while another
\* delivery for the same transaction is still in flight.
DuplicateDeliveries ==
  /\ last.kind = "webhook"
  /\ last.tid # 0
  /\ last.check = "ok"
  /\ \E p \in Procs : proc[p].pc = "h_verify" /\ proc[p].tid = last.tid

\* C15 as stated: after an event whose reference matches no transaction has
\* been reconciled, the result is "not found" and the wallet of the user the
\* event names is unlocked.
UnknownReferenceUnlocks ==
  (/\ last.kind = "webhook"
   /\ last.check = "ok"
   /\ last.etype \in ValidEventTypes
   /\ last.tid = 0
   /\ last.user \in Users)
    => (/\ last.result = "error_not_found"
        /\ ~wallets[last.user].is_locked)

ReferencesAreUnique ==
  \A i, j \in 1..Len(txns) :
    txns[i].reference = txns[j].reference => i = j

\* C18 as stated: after a release the wallet is unlocked, whatever it was
\* before.  The release looked at is the one the redirect callback makes for
\* the owner of the transaction it has just marked failed.
ReleaseUnlocks ==
  (/\ last.kind = "redirect"
   /\ last.tid # 0
   /\ last.prev = "pending")
    => ~wallets[last.user].is_locked

\* C19 as stated: a fund, withdraw or airtime request made while the wallet
\* of its user is locked ends, in the step that receives it, with the
\* lock-conflict error and leaves wallets and transactions as they were; no
\* withdrawal gets past its first step on a locked wallet.
LockedWalletRejectsInitiation ==
  [][/\ (/\ last = NoLast
         /\ last'.kind \in {"fund", "withdraw", "airtime"}
         /\ proc' = proc
         /\ wallets[last'.user].is_locked)
          => (/\ last'.result = "WalletError_locked"
              /\ wallets' = wallets
              /\ txns' = txns
              /\ published' = published)
     /\ \A p \in Procs :
          (~InWithdrawal(p) /\ InWithdrawal(p)') => ~wallets[proc'[p].user].is_locked]_vars

\* C20 as stated, on the side of the publisher: a connection receives, through
\* the listener, the messages published for its room and no others, so a
\* connection that is registered for a reference from before its resolution
\* on receives exactly one payload only if exactly one event has been
\* published for the reference of every resolved transaction.
ResolutionIsAnnouncedOnce ==
  \A t \in 1..Len(txns) :
    txns[t].status \in Terminal => Len(EventsFor(published, t)) = 1

\* C21: every payload a connection has been sent is a message whose
\* broadcast was not yet over when the connection registered, and is a message
\* of the room it registered for: a connection that registers for a reference
\* after the event of that reference has been broadcast is sent no payload
\* for it.
NoReplay ==
  \A c \in Conns : \A k \in 1..Len(received[c]) :
    /\ received[c][k] > since[c]
    /\ published[received[c][k]].tx_ref = socket[c].room

\* C21 witness: a connection is registered for a reference whose event was
\* broadcast before, the listener has since taken a later message, and the
\* connection has been sent nothing.
LateRegistration ==
  \E c \in Conns : \E i \in 1..Len(published) :
    /\ socket[c].state = "open"
    /\ published[i].tx_ref = socket[c].room
    /\ i <= since[c]
    /\ Broadcasted > since[c]
    /\ received[c] = << >>

PendingAt(t) == IF t <= Len(txns) THEN txns[t].status = "pending" ELSE FALSE

ResolvedAt(t) ==
  IF t <= Len(txns)
  THEN txns[t].status \in Terminal /\ ~wallets[txns[t].user].is_locked
  ELSE FALSE

\* C22 as stated: with handlers that go on and events that are delivered and
\* processed, a transaction that is pending is eventually success or failed
\* with the wallet of its owner unlocked.
PendingIsResolved ==
  \A t \in 1..MaxTxns : PendingAt(t) ~> ResolvedAt(t)

\* the transactions of user b
TxnsOf(b) == SelectSeq(txns, LAMBDA x : x.user = b)

\* the user whose wallet or transaction a running handler works on
SubjectOfProc(pr) ==
  IF pr.pc \in {"w_verify", "w_lock_read", "w_lock_write", "w_transfer"} THEN pr.user
  ELSE IF pr.pc \in {"r_update", "r_unlock", "h_verify"} THEN txns[pr.tid].user
  ELSE NoUser

\* the user whose wallet or transaction a finished operation worked on
SubjectOfOutcome(o) ==
  IF o.kind \in {"withdraw", "fund", "airtime"} THEN o.user
  ELSE IF o.kind \in {"redirect", "webhook"} /\ o.tid # 0 THEN txns[o.tid].user
  ELSE NoUser

SuccessMutatesByType ==
  [][(/\ last = NoLast
      /\ last'.kind = "webhook"
      /\ last'.check = "ok"
      /\ last'.tid # 0
      /\ last'.prev = "pending"
      /\ last'.user = txns[last'.tid].user
      /\ \/ last'.etype = "transfer" /\ last'.evstatus = "SUCCESSFUL"
         \/ /\ last'.etype = "payment" /\ last'.evstatus = "successful"
            /\ VerificationAccepted(last'.verify, txns[last'.tid])
            /\ last'.verify.amount = txns[last'.tid].amount)
       => LET t == last'.tid
              u == txns[t].user
          IN /\ txns'[t].status = "success"
             /\ wallets'[u].balance =
                  IF txns[t].type = "fund"
                  THEN wallets[u].balance + txns[t].amount
                  ELSE wallets[u].balance - txns[t].amount
             /\ ~wallets'[u].is_locked]_vars

\* C27: every record a step adds to the transactions is pending and names a
\* user who has a wallet, and no step removes a record or gives it to another
\* user.
CreatedPending ==
  [][/\ Len(txns') >= Len(txns)
     /\ \A t \in 1..Len(txns') :
          IF t > Len(txns)
          THEN txns'[t].status = "pending" /\ txns'[t].user \in DOMAIN wallets
          ELSE txns'[t].user = txns[t].user]_vars

\* C27 witness: a withdrawal has returned with the record it created.
WithdrawalCreatedRecord ==
  /\ last.kind = "withdraw"
  /\ last.result = "ok"
  /\ last.tid = Len(txns)
  /\ txns[last.tid].status = "pending"
  /\ txns[last.tid].user = last.user

\* C28 as stated: a wallet that has a pending transaction is locked.
PendingImpliesLocked ==
  \A t \in 1..Len(txns) :
    txns[t].status = "pending" => wallets[txns[t].user].is_locked

\* C29 as stated: an airtime purchase that passes the balance check takes
\* the lock before the provider call, and when it has returned or raised the
\* wallet is unlocked.
AirtimeLocksAndReleases ==
  (/\ last.kind = "airtime"
   /\ last.amount <= last.before)
    => (/\ last.held
        /\ ~wallets[last.user].is_locked)

\* C30 as stated: the step in which a fund or withdraw initiation returns
\* successfully leaves the wallet locked, has added exactly one transaction,
\* pending, of that user and with the reference sent to the gateway, and
\* leaves the balance as it was.
InitiationReturnsLocked ==
  [][(/\ last = NoLast
      /\ last'.kind \in {"fund", "withdraw"}
      /\ last'.result = "ok")
       => LET u == last'.user
              n == Len(txns')
          IN /\ wallets'[u].is_locked
             /\ n = Len(txns) + 1
             /\ txns'[n].status = "pending"
             /\ txns'[n].user = u
             /\ txns'[n].reference = GenerateTxRef(u, now)
             /\ wallets'[u].balance = wallets[u].balance]_vars

\* C31: a step that publishes is the end of a reconciliation that commits;
\* each payload it publishes is keyed by its own tx_ref, which is the
\* reference of a transaction whose committed status after the step is the
\* status of the payload.  A reconciliation that aborts publishes nothing.
PayloadMatchesStore ==
  [][/\ published' # published
          => (/\ last'.kind = "webhook"
              /\ last'.result \in {"success", "failed"}
              /\ Len(published') > Len(published)
              /\ \A i \in (Len(published) + 1)..Len(published') :
                   LET e == published'[i]
                       t == GetByReference(txns', e.tx_ref)
                   IN /\ e.room = e.tx_ref
                      /\ t # 0
                      /\ txns'[t].status = e.status)
     /\ (last = NoLast /\ last'.kind = "webhook"
           /\ last'.result \notin {"success", "failed"})
          => published' = published]_vars

\* C31 witness: the reconciliation of a failure event for a pending
\* transaction has aborted and nothing is published.
AbortedWithoutPayload ==
  /\ last.kind = "webhook"
  /\ last.check = "ok"
  /\ last.prev = "pending"
  /\ last.evstatus \in {"failed", "FAILED"}
  /\ last.result = "error_unexpected"
  /\ txns[last.tid].status = "pending"
  /\ published = << >>

\* C32 as stated: a call makes at most max_retries attempts; it returns a
\* response exactly when an attempt succeeded, and that attempt is its last
\* and the only one that succeeded; otherwise every one of max_retries
\* attempts failed, by the network or by an HTTP error status, and it raises.
RetriesAreBounded ==
  /\ Len(request.log) <= request.max_retries
  /\ request.pc = "done" =>
       LET n == Len(request.log)
       IN /\ n >= 1
          /\ \A k \in 1..(n - 1) : request.log[k] # "ok"
          /\ IF request.log[n] = "ok"
             THEN request.result = "response"
             ELSE n = request.max_retries /\ request.result \in {"RequestError", "HTTPStatusError"}

\* what the record at position t adds to its wallet u: the amount of a
\* successful fund, minus the amount of a successful withdrawal or purchase
RECURSIVE Settled(_, _, _)
Settled(ts, u, t) ==
  IF t = 0 THEN 0
  ELSE Settled(ts, u, t - 1)
       + (IF ts[t].user # u \/ ts[t].status # "success" THEN 0
          ELSE IF ts[t].type = "fund" THEN ts[t].amount ELSE 0 - ts[t].amount)

\* C33: every wallet's balance is the balance it opened with plus the amounts
\* of its successful fund transactions minus the amounts of its successful
\* withdraw and airtime transactions; pending and failed ones add nothing.
BalanceIsConserved ==
  \A u \in DOMAIN wallets :
    wallets[u].balance = OpeningBalance + Settled(txns, u, Len(txns))

\* a failed and a pending transaction of one wallet, whose balance they left alone
UnsettledRecords ==
  \E u \in DOMAIN wallets, t1, t2 \in 1..Len(txns) :
    /\ txns[t1].user = u /\ txns[t1].status = "failed"
    /\ txns[t2].user = u /\ txns[t2].status = "pending"
    /\ wallets[u].balance = OpeningBalance

\* C34: for every withdraw transaction in status pending the balance of its
\* wallet is at least its amount, and the subtraction a success resolution
\* makes for it is not rejected for insufficient balance.
PendingWithdrawIsCovered ==
  \A t \in 1..Len(txns) :
    (txns[t].type = "withdraw" /\ txns[t].status = "pending")
      => /\ wallets[txns[t].user].balance >= txns[t].amount
         /\ UpdateBalance(wallets, txns[t].user, txns[t].amount, "subtract").raised = "none"

\* a pending withdrawal of the whole balance
PendingWithdrawOfWholeBalance ==
  \E t \in 1..Len(txns) :
    /\ txns[t].type = "withdraw" /\ txns[t].status = "pending"
    /\ txns[t].amount = wallets[txns[t].user].balance
    /\ txns[t].amount > 0

\* C35 as stated: a transaction's status changes only in the step that ends
\* the reconciliation of an event whose signature passed validation; a wallet's
\* lock is released only in such a step or by a step of an initiating request;
\* and no step of the payment redirect callback changes a status or a lock.
OnlySignedEventsResolve ==
  [][/\ (\E t \in 1..Len(txns) : txns'[t].status # txns[t].status)
          => (last'.kind = "webhook" /\ last'.check = "ok")
     /\ (\E u \in DOMAIN wallets : wallets[u].is_locked /\ ~wallets'[u].is_locked)
          => \/ last'.kind = "webhook" /\ last'.check = "ok"
             \/ last'.kind \in {"fund", "withdraw", "airtime"}
             \/ \E p \in Procs : InWithdrawal(p) /\ proc'[p] # proc[p]
     /\ \A p \in Procs :
          (proc[p].pc \in {"r_update", "r_unlock"} /\ proc'[p] # proc[p])
            => /\ \A t \in 1..Len(txns) : txns'[t].status = txns[t].status
               /\ \A u \in DOMAIN wallets : wallets'[u].is_locked = wallets[u].is_locked]_vars

ConsumedIsAcknowledgedOnce ==
  \A m \in Messages :
    /\ inbox[m].rejects = 0
    /\ inbox[m].requeues = 0
    /\ inbox[m].runs <= 1
    /\ inbox[m].acks = (IF inbox[m].state = "processed" THEN 1 ELSE 0)

\* one message whose reconciliation raised and one whose reconciliation
\* succeeded, both acknowledged
RaisedAndSucceededAcknowledged ==
  \E m, n \in Messages :
    /\ inbox[m].state = "processed" /\ inbox[m].outcome = "logged" /\ inbox[m].runs = 1
    /\ inbox[n].state = "processed" /\ inbox[n].outcome = "success"
    /\ inbox[m].acks = 1 /\ inbox[n].acks = 1

\* C39 as stated: a connection receives only messages of its own room, a room
\* without connections is not kept, and once a broadcast is over, whether it
\* ran through or a send to one connection failed, every open connection that
\* was registered in the room before it has received the message.
BroadcastReachesRoom ==
  /\ \A c \in Conns : \A i \in 1..Len(received[c]) :
       published[received[c][i]].room = socket[c].room
  /\ \A r \in DOMAIN connections : connections[r] # {}
  /\ (lis.msg # 0 /\ (lis.pc = "wait" \/ (lis.pc = "dead" /\ lis.raised = "TypeError")))
       => \A c \in Conns :
            (/\ socket[c].state = "open"
             /\ socket[c].room = published[lis.msg].room
             /\ since[c] < lis.idx)
              => \E i \in 1..Len(received[c]) : received[c][i] = lis.msg

====
